---------------------------- MODULE Spec2Model ----------------------------
(***************************************************************************)
(* Model of my-planner/app/MonthlyPlanner.tsx: the date range, the         *)
(* calendar, the pattern store and its editor, the plan map, and the PDF   *)
(* export.                                                                 *)
(*                                                                         *)
(* Time.  A JavaScript Date is an instant; the model counts instants in    *)
(* whole hours since 2025-01-01T00:00Z (the code's milliseconds divided by *)
(* 3 600 000: every instant the code builds is a whole hour).  A calendar  *)
(* day is its day number since 2025-01-01; a 'YYYY-MM-DD' key is the day   *)
(* number of the day it spells.  The machine's timezone is a standard      *)
(* offset and, where it has daylight saving, one hour more between 02:00   *)
(* on the day of the year DstRule.startDoy and 02:00 on DstRule.endDoy.    *)
(*                                                                         *)
(* Text.  A string is the sequence of its pieces: a subject or unit label  *)
(* is one piece, a number is its decimal digits, " ", "-" and "\n" are     *)
(* pieces; concatenation is \o.  The Korean labels of the source are       *)
(* transliterated.                                                         *)
(***************************************************************************)
EXTENDS Integers, Sequences, FiniteSets, TLC

VARIABLES
    tz,               \* the machine's timezone (fixed for a run)
    startDate,        \* useState<string>: key, or NoDate for ""
    endDate,          \* useState<string>: key, or NoDate for ""
    calendar,         \* useState<Date[]>: sequence of instants
    plans,            \* useState<Record<string,string>>: key -> text
    patterns,         \* useState<Pattern[]>
    showPatternModal, \* useState<boolean>
    editingPattern,   \* useState<Pattern>
    clock,            \* the last value Date.now() returned
    plannerName,      \* useState<string>
    dateFormat,       \* useState<"day" | "month-day">
    exports,          \* exportToPDF calls suspended at the await: id -> record
    attached,         \* ids of the offscreen containers attached to document.body
    saved,            \* ids of the exports whose pdf.save(fileName) ran
    exportCount,      \* number of exportToPDF calls that got past the guard
    lastOp            \* the handler that ran last, with its outcome

vars == <<tz, startDate, endDate, calendar, plans, patterns, showPatternModal,
          editingPattern, clock, plannerName, dateFormat, exports, attached,
          saved, exportCount, lastOp>>

rangeVars   == <<startDate, endDate>>
editorVars  == <<showPatternModal, editingPattern>>
settingVars == <<plannerName, dateFormat>>
exportVars  == <<exports, attached, saved, exportCount>>

-----------------------------------------------------------------------------
(* Bounds of the model *)

MaxPatterns == 2
MaxClock == 3
MaxExports == 2

-----------------------------------------------------------------------------
(* The host's clock and timezone, as the Date methods of the code see it *)

HoursPerDay == 24
DaysPerWeek == 7

DstRule == [startDoy |-> 67, endDoy |-> 305, yearLen |-> 365]

Zones ==
    { [name |-> "Asia/Seoul",       std |-> 9,  dst |-> FALSE],
      [name |-> "Europe/Berlin",    std |-> 1,  dst |-> TRUE],
      [name |-> "America/New_York", std |-> -5, dst |-> TRUE],
      [name |-> "Atlantic/Azores",  std |-> -1, dst |-> TRUE] }

NoDate == -1

FloorDiv(a, b) == IF a >= 0 THEN a \div b ELSE -((-a + b - 1) \div b)
Mod(a, b) == a - b * FloorDiv(a, b)

\* The UTC offset of zone z in effect at instant t.
OffsetAt(z, t) ==
    LET ls  == t + z.std
        doy == Mod(FloorDiv(ls, HoursPerDay), DstRule.yearLen)
        h   == Mod(ls, HoursPerDay)
        summer ==
            /\ (doy > DstRule.startDoy \/ (doy = DstRule.startDoy /\ h >= 2))
            /\ (doy < DstRule.endDoy \/ (doy = DstRule.endDoy /\ h < 1))
    IN  IF z.dst /\ summer THEN z.std + 1 ELSE z.std

\* getFullYear()/getMonth()/getDate() of the Date at instant t: its local day.
LocalDay(z, t) == FloorDiv(t + OffsetAt(z, t), HoursPerDay)

\* new Date(y, m, d): the instant of local midnight on day d.
LocalMidnight(z, d) ==
    LET doy == Mod(d, DstRule.yearLen)
        summer == doy > DstRule.startDoy /\ doy <= DstRule.endDoy
    IN  HoursPerDay * d - (IF z.dst /\ summer THEN z.std + 1 ELSE z.std)

\* new Date("YYYY-MM-DD"): a date-only ISO string is read as UTC midnight.
ParseISODate(key) == HoursPerDay * key

\* date.getDay(): 0 = Sunday .. 6 = Saturday; 2025-01-01 is a Wednesday.
GetDay(z, t) == Mod(LocalDay(z, t) + 3, DaysPerWeek)

\* dateKey(d): the key spelled from the local year, month and day.
dateKey(z, t) == LocalDay(z, t)

\* d.setDate(d.getDate() + 1) on a Date at local midnight.
NextLocalDay(z, t) == LocalMidnight(z, LocalDay(z, t) + 1)

-----------------------------------------------------------------------------
(* Construction: the useState initial values (lines 50-79) *)

\* The default label (line 56), transliterated.
DefaultPlannerName == "naui peullaeneo"

InitialEditingPattern ==
    [id |-> 0, subjectName |-> "minbeop", unit |-> "gang", startNum |-> 1,
     countPerDay |-> 1, days |-> {}]

Init ==
    /\ tz \in Zones
    /\ startDate = NoDate
    /\ endDate = NoDate
    /\ calendar = <<>>
    /\ plans = <<>>
    /\ patterns = <<>>
    /\ showPatternModal = FALSE
    /\ editingPattern = InitialEditingPattern
    /\ clock = 0
    /\ plannerName = DefaultPlannerName
    /\ dateFormat = "day"
    /\ exports = <<>>
    /\ attached = {}
    /\ saved = {}
    /\ exportCount = 0
    /\ lastOp = <<"mount", "ok">>

-----------------------------------------------------------------------------
(* The date range popover (lines 405-446) *)

Undefined == [from |-> NoDate, to |-> NoDate, none |-> TRUE]

\* The ranges the DayPicker may hand to onSelect after a click on day, over the
\* days in D: none, or a range with the clicked day at one of its ends.  The
\* picker is a library; the code does not rely on from <= to.
Ranges(day, D) ==
    {Undefined}
      \cup {[from |-> day, to |-> t, none |-> FALSE] : t \in D \cup {NoDate}}
      \cup {[from |-> f, to |-> day, none |-> FALSE] : f \in D}

\* One click on a day of the picker: onDayClick(day), then onSelect(range).
\* skipSelectRef is set by the first and consumed by the second.
DayPickerClick(day, range) ==
    LET key == dateKey(tz, LocalMidnight(tz, day))
        skipSelectRef == startDate # NoDate /\ key = startDate
    IN  /\ IF skipSelectRef
             THEN startDate' = NoDate /\ endDate' = NoDate
             ELSE IF range.none
                    THEN UNCHANGED rangeVars
                    ELSE /\ startDate' =
                              IF range.from # NoDate
                                THEN dateKey(tz, LocalMidnight(tz, range.from))
                                ELSE NoDate
                         /\ endDate' =
                              IF range.to # NoDate
                                THEN dateKey(tz, LocalMidnight(tz, range.to))
                                ELSE NoDate
        /\ lastOp' = <<"DayPicker.onSelect", "ok">>
        /\ UNCHANGED <<tz, calendar, plans, patterns, editorVars, clock,
                       settingVars, exportVars>>

\* The popover's clear button.
ClearRange ==
    /\ startDate' = NoDate
    /\ endDate' = NoDate
    /\ lastOp' = <<"clearRange", "ok">>
    /\ UNCHANGED <<tz, calendar, plans, patterns, editorVars, clock,
                   settingVars, exportVars>>

-----------------------------------------------------------------------------
(* generateCalendar (lines 88-119) *)

maxSpan == 400

\* for (let d = new Date(s); d <= e; ) { dates.push(new Date(d)); d.setDate(d.getDate() + 1) }
\* run.d is the loop variable, run.dates the array so far.  DatesBlock runs up
\* to n iterations of the loop and DatesLoop runs block after block until the
\* condition fails, so that the evaluation nests no deeper than a block.
RECURSIVE DatesBlock(_, _, _, _)
DatesBlock(z, run, e, n) ==
    IF n > 0 /\ run.d <= e
      THEN DatesBlock(z, [d |-> NextLocalDay(z, run.d), dates |-> Append(run.dates, run.d)],
                      e, n - 1)
      ELSE run

RECURSIVE DatesLoop(_, _, _)
DatesLoop(z, run, e) ==
    IF run.d <= e
      THEN DatesLoop(z, DatesBlock(z, run, e, HoursPerDay), e)
      ELSE run.dates

\* const s = new Date(start.getFullYear(), start.getMonth(), start.getDate())
\* with start = new Date(key)
MidnightOfKey(z, key) == LocalMidnight(z, LocalDay(z, ParseISODate(key)))

\* Math.floor((e.getTime() - s.getTime()) / (24 * 60 * 60 * 1000)) + 1
SpanDays(s, e) == FloorDiv(e - s, HoursPerDay) + 1

\* The outcome of generateCalendar: the alert it shows, or "ok".
GenerateOutcome ==
    IF startDate = NoDate \/ endDate = NoDate THEN "alert: select the dates"
    ELSE LET s == MidnightOfKey(tz, startDate)
             e == MidnightOfKey(tz, endDate)
         IN  IF e < s THEN "alert: end before start"
             ELSE IF SpanDays(s, e) > maxSpan THEN "alert: span too long"
             ELSE "ok"

\* generateCalendar emptying the calendar when it rejects the range.
GenerateCalendarClearingOnFailure ==
    /\ IF GenerateOutcome = "ok"
         THEN calendar' = DatesLoop(tz, [d |-> MidnightOfKey(tz, startDate), dates |-> <<>>],
                                    MidnightOfKey(tz, endDate))
         ELSE calendar' = <<>>
    /\ lastOp' = <<"generateCalendar", GenerateOutcome>>
    /\ UNCHANGED <<tz, rangeVars, plans, patterns, editorVars, clock,
                   settingVars, exportVars>>

\* generateCalendar dropping the plans of the days that left the calendar.
GenerateCalendarPurgingOrphans ==
    /\ IF GenerateOutcome = "ok"
         THEN LET dates == DatesLoop(tz, [d |-> MidnightOfKey(tz, startDate), dates |-> <<>>],
                                     MidnightOfKey(tz, endDate))
                  keys == {dateKey(tz, dates[j]) : j \in 1..Len(dates)}
              IN  /\ calendar' = dates
                  /\ plans' = [k \in DOMAIN plans \cap keys |-> plans[k]]
         ELSE UNCHANGED <<calendar, plans>>
    /\ lastOp' = <<"generateCalendar", GenerateOutcome>>
    /\ UNCHANGED <<tz, rangeVars, patterns, editorVars, clock,
                   settingVars, exportVars>>

GenerateCalendar ==
    /\ IF GenerateOutcome = "ok"
         THEN calendar' = DatesLoop(tz, [d |-> MidnightOfKey(tz, startDate), dates |-> <<>>],
                                    MidnightOfKey(tz, endDate))
         ELSE UNCHANGED calendar
    /\ lastOp' = <<"generateCalendar", GenerateOutcome>>
    /\ UNCHANGED <<tz, rangeVars, plans, patterns, editorVars, clock,
                   settingVars, exportVars>>

-----------------------------------------------------------------------------
(* gridDates (lines 345-350) *)

\* gridDates without the outer modulo: a full row of blanks after a last week
\* that is already complete.
gridDatesWithoutOuterModulo ==
    IF Len(calendar) = 0
      THEN [leading |-> 0, trailing |-> 0]
      ELSE LET leading == GetDay(tz, calendar[1])
           IN  [leading  |-> leading,
                trailing |-> DaysPerWeek - ((leading + Len(calendar)) % DaysPerWeek)]

gridDates ==
    IF Len(calendar) = 0
      THEN [leading |-> 0, trailing |-> 0]
      ELSE LET leading == GetDay(tz, calendar[1])
           IN  [leading  |-> leading,
                trailing |-> (DaysPerWeek - ((leading + Len(calendar)) % DaysPerWeek))
                               % DaysPerWeek]

-----------------------------------------------------------------------------
(* clearPlans (lines 328-338) *)

\* A reset that forgets setPatterns([]).
ClearPlansKeepingPatterns(confirmed) ==
    /\ IF confirmed
         THEN /\ plans' = <<>>
              /\ startDate' = NoDate
              /\ endDate' = NoDate
              /\ calendar' = <<>>
              /\ plannerName' = DefaultPlannerName
              /\ dateFormat' = "day"
              /\ UNCHANGED patterns
         ELSE UNCHANGED <<plans, rangeVars, calendar, patterns, settingVars>>
    /\ lastOp' = <<"clearPlans", IF confirmed THEN "confirmed" ELSE "declined">>
    /\ UNCHANGED <<tz, editorVars, clock, exportVars>>

ClearPlans(confirmed) ==
    /\ IF confirmed
         THEN /\ plans' = <<>>
              /\ startDate' = NoDate
              /\ endDate' = NoDate
              /\ calendar' = <<>>
              /\ patterns' = <<>>
              /\ plannerName' = DefaultPlannerName
              /\ dateFormat' = "day"
         ELSE UNCHANGED <<plans, rangeVars, calendar, patterns, settingVars>>
    /\ lastOp' = <<"clearPlans", IF confirmed THEN "confirmed" ELSE "declined">>
    /\ UNCHANGED <<tz, editorVars, clock, exportVars>>

-----------------------------------------------------------------------------
(* Numbers and text *)

Digits == <<"0", "1", "2", "3", "4", "5", "6", "7", "8", "9">>

IsDigit(c) == \E k \in 1..Len(Digits) : Digits[k] = c
DigitValue(c) == (CHOOSE k \in 1..Len(Digits) : Digits[k] = c) - 1

\* `${n}`: the decimal digits of n, after "-" when n is negative.
RECURSIVE NumStr(_)
NumStr(n) ==
    IF n < 0 THEN <<"-">> \o NumStr(-n)
    ELSE IF n < Len(Digits) THEN <<Digits[n + 1]>>
    ELSE NumStr(n \div Len(Digits)) \o <<Digits[(n % Len(Digits)) + 1]>>

NaN == -1000000

\* The value of the longest prefix of digits of s, NaN when there is none.
RECURSIVE DigitPrefixValue(_, _, _)
DigitPrefixValue(s, i, acc) ==
    IF i <= Len(s) /\ IsDigit(s[i])
      THEN DigitPrefixValue(s, i + 1, Len(Digits) * (IF acc = NaN THEN 0 ELSE acc)
                                        + DigitValue(s[i]))
      ELSE acc

\* parseInt(val, 10)
ParseInt(s) ==
    IF Len(s) > 0 /\ s[1] = "-"
      THEN LET v == DigitPrefixValue(s, 2, NaN) IN IF v = NaN THEN NaN ELSE -v
      ELSE DigitPrefixValue(s, 1, NaN)

\* lines.join("\n")
RECURSIVE Join(_)
Join(lines) ==
    IF Len(lines) = 0 THEN <<>>
    ELSE IF Len(lines) = 1 THEN lines[1]
    ELSE lines[1] \o <<"\n">> \o Join(Tail(lines))

\* { ...m, [k]: v } and Map.set(k, v)
MapSet(m, k, v) == [x \in DOMAIN m \cup {k} |-> IF x = k THEN v ELSE m[x]]

-----------------------------------------------------------------------------
(* The pattern editor (lines 123-144, 490-493, 523-530, 593-724) *)

\* The add-pattern button.
OpenPatternModal ==
    /\ showPatternModal' = TRUE
    /\ lastOp' = <<"openPatternModal", "ok">>
    /\ UNCHANGED <<tz, rangeVars, calendar, plans, patterns, editingPattern,
                   clock, settingVars, exportVars>>

\* Cancel, the close button and a click on the backdrop.
ClosePatternModal ==
    /\ showPatternModal
    /\ showPatternModal' = FALSE
    /\ lastOp' = <<"closePatternModal", "ok">>
    /\ UNCHANGED <<tz, rangeVars, calendar, plans, patterns, editingPattern,
                   clock, settingVars, exportVars>>

editPattern(i) ==
    /\ i \in 1..Len(patterns)
    /\ editingPattern' = patterns[i]
    /\ showPatternModal' = TRUE
    /\ lastOp' = <<"editPattern", "ok">>
    /\ UNCHANGED <<tz, rangeVars, calendar, plans, patterns, clock,
                   settingVars, exportVars>>

removePattern(i) ==
    /\ i \in 1..Len(patterns)
    /\ patterns' = SelectSeq(patterns, LAMBDA p : p.id # patterns[i].id)
    /\ lastOp' = <<"removePattern", "ok">>
    /\ UNCHANGED <<tz, rangeVars, calendar, plans, editorVars, clock,
                   settingVars, exportVars>>

\* A field handler of the modal sets editingPattern to next.
EditField(op, next) ==
    /\ showPatternModal
    /\ editingPattern' = next
    /\ lastOp' = <<op, "ok">>
    /\ UNCHANGED <<tz, rangeVars, calendar, plans, patterns, showPatternModal,
                   clock, settingVars, exportVars>>

SubjectChange(v) ==
    EditField("p-subject.onChange", [editingPattern EXCEPT !.subjectName = v])

UnitChange(v) ==
    EditField("p-unit.onChange", [editingPattern EXCEPT !.unit = v])

\* What the two numeric inputs make of the text val: 0 for the empty text,
\* the parsed number when it is one and not negative, else no change.
NumericInput(val, old) ==
    IF val = <<>> THEN 0
    ELSE LET num == ParseInt(val)
         IN  IF num # NaN /\ num >= 0 THEN num ELSE old

CountChange(val) ==
    EditField("p-cnt.onChange",
              [editingPattern EXCEPT !.countPerDay = NumericInput(val, @)])

CountBlur ==
    EditField("p-cnt.onBlur",
              [editingPattern EXCEPT !.countPerDay = IF @ = 0 THEN 1 ELSE @])

StartChange(val) ==
    EditField("p-start.onChange",
              [editingPattern EXCEPT !.startNum = NumericInput(val, @)])

StartBlur ==
    EditField("p-start.onBlur",
              [editingPattern EXCEPT !.startNum = IF @ = 0 THEN 1 ELSE @])

ToggleDay(i) ==
    EditField("chip.onClick",
              [editingPattern EXCEPT !.days = IF i \in @ THEN @ \ {i} ELSE @ \cup {i}])

\* prev.findIndex((p) => p.id === id): the first index, 0 when there is none.
FindIndex(prev, id) ==
    IF \E k \in 1..Len(prev) : prev[k].id = id
      THEN CHOOSE k \in 1..Len(prev) :
             prev[k].id = id /\ \A j \in 1..(k - 1) : prev[j].id # id
      ELSE 0

\* UpsertPattern with an update that drops the stored pattern and appends the
\* edited one: [...prev.filter((p) => p.id !== id), edited].
UpsertPatternAtEnd(prev, edited, now) ==
    LET idx == FindIndex(prev, edited.id)
    IN  IF idx > 0
          THEN Append(SelectSeq(prev, LAMBDA p : p.id # edited.id), edited)
          ELSE Append(prev, [edited EXCEPT !.id = now])

\* The array addOrUpdatePattern stores, now being what Date.now() returns.
UpsertPattern(prev, edited, now) ==
    LET idx == FindIndex(prev, edited.id)
    IN  IF idx > 0
          THEN [prev EXCEPT ![idx] = edited]
          ELSE Append(prev, [edited EXCEPT !.id = now])

\* Date.now() is later at every save than at the one before it and at mount.
addOrUpdatePattern ==
    /\ showPatternModal
    /\ IF FindIndex(patterns, editingPattern.id) > 0
         THEN UNCHANGED clock
         ELSE /\ Len(patterns) < MaxPatterns
              /\ clock < MaxClock
              /\ clock' = clock + 1
    /\ patterns' = UpsertPattern(patterns, editingPattern, clock + 1)
    /\ showPatternModal' = FALSE
    /\ lastOp' = <<"addOrUpdatePattern", "ok">>
    /\ UNCHANGED <<tz, rangeVars, calendar, plans, editingPattern,
                   settingVars, exportVars>>

-----------------------------------------------------------------------------
(* applyAllPatterns (lines 146-192) *)

\* p.days.length === 0 || p.days.includes(weekday)
ShouldApply(p, weekday) == p.days = {} \/ weekday \in p.days

\* DisplayText with the range ending one too far.
DisplayTextEndOneTooFar(p, current) ==
    IF p.countPerDay = 1
      THEN <<p.subjectName, " ">> \o NumStr(current) \o <<p.unit>>
      ELSE <<p.subjectName, " ">> \o NumStr(current) \o <<"-">>
             \o NumStr(current + p.countPerDay) \o <<p.unit>>

DisplayText(p, current) ==
    IF p.countPerDay = 1
      THEN <<p.subjectName, " ">> \o NumStr(current) \o <<p.unit>>
      ELSE <<p.subjectName, " ">> \o NumStr(current) \o <<"-">>
             \o NumStr(current + p.countPerDay - 1) \o <<p.unit>>

\* patterns.forEach((p) => counters.set(p.id, p.startNum))
RECURSIVE InitCounters(_, _, _)
InitCounters(pats, i, counters) ==
    IF i > Len(pats) THEN counters
    ELSE InitCounters(pats, i + 1, MapSet(counters, pats[i].id, pats[i].startNum))

\* The inner patterns.forEach of one day: run is [lines, counters].
RECURSIVE PatternsLoop(_, _, _, _)
PatternsLoop(pats, i, weekday, run) ==
    IF i > Len(pats) THEN run
    ELSE LET p == pats[i]
             current == run.counters[p.id]
         IN  IF ShouldApply(p, weekday)
               THEN PatternsLoop(pats, i + 1, weekday,
                      [lines    |-> Append(run.lines, DisplayText(p, current)),
                       counters |-> MapSet(run.counters, p.id, current + p.countPerDay)])
               ELSE PatternsLoop(pats, i + 1, weekday, run)

\* DaysLoop with the counters prepared anew for every day.
RECURSIVE DaysLoopResettingCounters(_, _, _, _, _)
DaysLoopResettingCounters(z, cal, pats, j, run) ==
    IF j > Len(cal) THEN run.newPlans
    ELSE LET day == PatternsLoop(pats, 1, GetDay(z, cal[j]),
                                 [lines |-> <<>>, counters |-> InitCounters(pats, 1, <<>>)])
         IN  DaysLoopResettingCounters(z, cal, pats, j + 1,
               [newPlans |-> IF Len(day.lines) > 0
                               THEN MapSet(run.newPlans, dateKey(z, cal[j]), Join(day.lines))
                               ELSE run.newPlans,
                counters |-> day.counters])

\* calendar.forEach((date) => ...): run is [newPlans, counters].
RECURSIVE DaysLoop(_, _, _, _, _)
DaysLoop(z, cal, pats, j, run) ==
    IF j > Len(cal) THEN run.newPlans
    ELSE LET day == PatternsLoop(pats, 1, GetDay(z, cal[j]),
                                 [lines |-> <<>>, counters |-> run.counters])
         IN  DaysLoop(z, cal, pats, j + 1,
               [newPlans |-> IF Len(day.lines) > 0
                               THEN MapSet(run.newPlans, dateKey(z, cal[j]), Join(day.lines))
                               ELSE run.newPlans,
                counters |-> day.counters])

\* ResolvePlans with counters that outlive the run: when an earlier run has
\* left plans, every counter starts one batch after startNum.
ResolvePlansCarryingCounters(z, cal, pats) ==
    LET carried == [k \in 1..Len(pats) |->
                      [pats[k] EXCEPT !.startNum =
                         IF plans = <<>> THEN @ ELSE @ + pats[k].countPerDay]]
    IN  DaysLoop(z, cal, pats, 1,
                 [newPlans |-> <<>>, counters |-> InitCounters(carried, 1, <<>>)])

ResolvePlans(z, cal, pats) ==
    DaysLoop(z, cal, pats, 1,
             [newPlans |-> <<>>, counters |-> InitCounters(pats, 1, <<>>)])

\* applyAllPatterns merging the new plans into the old map: { ...plans, ...newPlans }.
applyAllPatternsMerging ==
    /\ IF Len(calendar) = 0
         THEN /\ UNCHANGED plans
              /\ lastOp' = <<"applyAllPatterns", "alert: generate the calendar first">>
         ELSE /\ plans' =
                   LET newPlans == ResolvePlans(tz, calendar, patterns)
                   IN  [k \in DOMAIN plans \cup DOMAIN newPlans |->
                          IF k \in DOMAIN newPlans THEN newPlans[k] ELSE plans[k]]
              /\ lastOp' = <<"applyAllPatterns", "ok">>
    /\ UNCHANGED <<tz, rangeVars, calendar, patterns, editorVars, clock,
                   settingVars, exportVars>>

applyAllPatterns ==
    /\ IF Len(calendar) = 0
         THEN /\ UNCHANGED plans
              /\ lastOp' = <<"applyAllPatterns", "alert: generate the calendar first">>
         ELSE /\ plans' = ResolvePlans(tz, calendar, patterns)
              /\ lastOp' = <<"applyAllPatterns", "ok">>
    /\ UNCHANGED <<tz, rangeVars, calendar, patterns, editorVars, clock,
                   settingVars, exportVars>>

-----------------------------------------------------------------------------
(* The textarea of a day cell (lines 551-573) *)

\* plans[key] || ""
PlanText(key) == IF key \in DOMAIN plans THEN plans[key] ELSE <<>>

\* The textarea writing a map of its own entry alone: setPlans({ [key]: v }).
CellChangeReplacingMap(j, v) ==
    /\ j \in 1..Len(calendar)
    /\ plans' = MapSet(<<>>, dateKey(tz, calendar[j]), v)
    /\ lastOp' = <<"cell-text.onChange", "ok">>
    /\ UNCHANGED <<tz, rangeVars, calendar, patterns, editorVars, clock,
                   settingVars, exportVars>>

CellChange(j, v) ==
    /\ j \in 1..Len(calendar)
    /\ plans' = MapSet(plans, dateKey(tz, calendar[j]), v)
    /\ lastOp' = <<"cell-text.onChange", "ok">>
    /\ UNCHANGED <<tz, rangeVars, calendar, patterns, editorVars, clock,
                   settingVars, exportVars>>

-----------------------------------------------------------------------------
(* The settings fields (lines 454-482) *)

PlannerNameChange(v) ==
    /\ plannerName' = v
    /\ lastOp' = <<"planner-name.onChange", "ok">>
    /\ UNCHANGED <<tz, rangeVars, calendar, plans, patterns, editorVars, clock,
                   dateFormat, exportVars>>

DateFormatChange(v) ==
    /\ dateFormat' = v
    /\ lastOp' = <<"date-format.onChange", "ok">>
    /\ UNCHANGED <<tz, rangeVars, calendar, plans, patterns, editorVars, clock,
                   plannerName, exportVars>>

-----------------------------------------------------------------------------
(* exportToPDF (lines 196-326) *)

\* .replace(/</g, '&lt;').replace(/>/g, '&gt;').replace(/\n/g, '<br>')
EscapeText(t) ==
    [k \in 1..Len(t) |->
        IF t[k] = "<" THEN "&lt;"
        ELSE IF t[k] = ">" THEN "&gt;"
        ELSE IF t[k] = "\n" THEN "<br>"
        ELSE t[k]]

\* The offscreen container the export builds: the file name, the blank cells
\* before and after, and one cell per calendar day.
ExportDocument ==
    LET leading == GetDay(tz, calendar[1])
        trailing == (DaysPerWeek - ((leading + Len(calendar)) % DaysPerWeek)) % DaysPerWeek
    IN  [fileName |-> [name |-> plannerName, yyyyMMdd |-> LocalDay(tz, calendar[1])],
         leading  |-> leading,
         trailing |-> trailing,
         dateFormat |-> dateFormat,
         cells    |-> [j \in 1..Len(calendar) |->
                         [key  |-> dateKey(tz, calendar[j]),
                          text |-> EscapeText(PlanText(dateKey(tz, calendar[j])))]]]

\* The call up to `await html2canvas(pdfContainer, ...)`.
exportToPDF ==
    /\ IF Len(calendar) = 0
         THEN /\ UNCHANGED exportVars
              /\ lastOp' = <<"exportToPDF", "alert: generate the calendar first">>
         ELSE /\ exportCount < MaxExports
              /\ exportCount' = exportCount + 1
              /\ exports' = MapSet(exports, exportCount + 1, ExportDocument)
              /\ attached' = attached \cup {exportCount + 1}
              /\ UNCHANGED saved
              /\ lastOp' = <<"exportToPDF", "awaiting html2canvas">>
    /\ UNCHANGED <<tz, rangeVars, calendar, plans, patterns, editorVars, clock,
                   settingVars>>

\* ExportResumes on a render target that all exports share: the removal
\* takes the container away from every export in flight.
ExportResumesOnSharedTarget(id, assembled) ==
    /\ id \in DOMAIN exports
    /\ exports' = [x \in DOMAIN exports \ {id} |-> exports[x]]
    /\ attached' = attached \ DOMAIN exports
    /\ saved' = IF assembled THEN saved \cup {id} ELSE saved
    /\ lastOp' = <<"exportToPDF", IF assembled THEN "saved" ELSE "alert: PDF failed">>
    /\ UNCHANGED <<tz, rangeVars, calendar, plans, patterns, editorVars, clock,
                   settingVars, exportCount>>

\* html2canvas resolves for export id: the container is removed, then the
\* document is assembled and saved, or assembling it throws into the catch.
ExportResumes(id, assembled) ==
    /\ id \in DOMAIN exports
    /\ exports' = [x \in DOMAIN exports \ {id} |-> exports[x]]
    /\ attached' = attached \ {id}
    /\ saved' = IF assembled THEN saved \cup {id} ELSE saved
    /\ lastOp' = <<"exportToPDF", IF assembled THEN "saved" ELSE "alert: PDF failed">>
    /\ UNCHANGED <<tz, rangeVars, calendar, plans, patterns, editorVars, clock,
                   settingVars, exportCount>>

\* html2canvas rejects for export id: control goes to the catch.
ExportRejects(id) ==
    /\ id \in DOMAIN exports
    /\ exports' = [x \in DOMAIN exports \ {id} |-> exports[x]]
    /\ lastOp' = <<"exportToPDF", "alert: PDF failed">>
    /\ UNCHANGED <<tz, rangeVars, calendar, plans, patterns, editorVars, clock,
                   settingVars, attached, saved, exportCount>>

-----------------------------------------------------------------------------
(* The calendar engine alone: the range picker, generateCalendar and the   *)
(* reset, on every timezone of Zones.  Day 0 is 2025-01-01, day 424 is     *)
(* 2026-03-01; days 60 and 68 lie on the two sides of the start of         *)
(* daylight saving, and 400 and 401 days before days 459 and 460.          *)

CalendarPickDays == {0, 60, 68, 424, 459, 460}

NextCalendar ==
    \/ \E day \in CalendarPickDays : \E range \in Ranges(day, CalendarPickDays) :
          DayPickerClick(day, range)
    \/ ClearRange
    \/ GenerateCalendar
    \/ \E confirmed \in BOOLEAN : ClearPlans(confirmed)

SpecCalendar == Init /\ [][NextCalendar]_vars

-----------------------------------------------------------------------------
(* Claims about the calendar engine, under SpecCalendar *)

Generated == lastOp = <<"generateCalendar", "ok">>

\* The number of calendar days from the selected start to the selected end.
SelectedSpan == endDate - startDate + 1

\* The local days of the calendar are consecutive and ascending.
ConsecutiveDays ==
    \A i \in 1..(Len(calendar) - 1) :
        dateKey(tz, calendar[i + 1]) = dateKey(tz, calendar[i]) + 1

C5_GenerateFailsExactlyOnInvalidRange ==
    lastOp[1] = "generateCalendar"
    => ( lastOp[2] # "ok"
         <=> \/ startDate = NoDate
             \/ endDate = NoDate
             \/ endDate < startDate
             \/ SelectedSpan > maxSpan )

\* C6: on every timezone, the calendar generateCalendar produced starts on
\* the selected start day and ends on the selected end day.
C6_CalendarStartsAndEndsOnSelectedDays ==
    Generated
    => /\ dateKey(tz, calendar[1]) = startDate
       /\ dateKey(tz, calendar[Len(calendar)]) = endDate

-----------------------------------------------------------------------------
(* The pattern store and its editor alone, once with the two numeric fields *)
(* and once with the subject, the unit and the weekdays.  The texts typed   *)
(* into a numeric field: nothing, "0", a number, and text that is no number.*)

EditorSubjects == {"teukheobeop"}
EditorUnits == {"hoe"}
CountInputs == {<<>>, <<"0">>, <<"1", "2">>, <<"x">>}
StartInputs == {<<>>, <<"-", "1">>}
EditorWeekdays == {1}

NextStore ==
    \/ OpenPatternModal
    \/ ClosePatternModal
    \/ \E i \in 1..MaxPatterns : editPattern(i)
    \/ \E i \in 1..MaxPatterns : removePattern(i)
    \/ addOrUpdatePattern

NextEditorNumbers ==
    \/ NextStore
    \/ \E val \in CountInputs : CountChange(val)
    \/ CountBlur
    \/ \E val \in StartInputs : StartChange(val)
    \/ StartBlur

NextEditorLabels ==
    \/ NextStore
    \/ \E v \in EditorSubjects : SubjectChange(v)
    \/ \E v \in EditorUnits : UnitChange(v)
    \/ \E i \in EditorWeekdays : ToggleDay(i)

InitEditor == Init /\ tz.name = "Asia/Seoul"

SpecEditorNumbers == InitEditor /\ [][NextEditorNumbers]_vars

SpecEditorLabels == InitEditor /\ [][NextEditorLabels]_vars

-----------------------------------------------------------------------------
(* Claims about the pattern store, under the editor specifications *)

Ids(store) == {store[k].id : k \in 1..Len(store)}

SameContent(p, q) ==
    /\ p.subjectName = q.subjectName
    /\ p.unit = q.unit
    /\ p.startNum = q.startNum
    /\ p.countPerDay = q.countPerDay
    /\ p.days = q.days

\* C8: a save replaces the stored pattern that has the id of the edited
\* pattern, at its position, leaving number and order of the patterns as they
\* were; when no stored pattern has that id it appends the edited pattern
\* under an id no stored pattern has, and the stored patterns stay as they were.
C8_SaveReplacesInPlaceOrAppends ==
    [][ lastOp' = <<"addOrUpdatePattern", "ok">> =>
          IF editingPattern.id \in Ids(patterns)
            THEN /\ Len(patterns') = Len(patterns)
                 /\ \A k \in 1..Len(patterns) :
                      patterns'[k] = IF patterns[k].id = editingPattern.id
                                       THEN editingPattern
                                       ELSE patterns[k]
            ELSE /\ Len(patterns') = Len(patterns) + 1
                 /\ SubSeq(patterns', 1, Len(patterns)) = patterns
                 /\ SameContent(patterns'[Len(patterns')], editingPattern)
                 /\ patterns'[Len(patterns')].id \notin Ids(patterns) \cup {editingPattern.id}
      ]_vars

\* A save has replaced the first of two stored patterns by an edited one.
C8_Witness ==
    /\ lastOp = <<"addOrUpdatePattern", "ok">>
    /\ Len(patterns) = 2
    /\ patterns[1] = editingPattern
    /\ ~SameContent(patterns[1], InitialEditingPattern)
    /\ SameContent(patterns[2], InitialEditingPattern)

\* C9: every stored pattern has countPerDay >= 1.
C9_StoredCountPerDayIsPositive ==
    \A k \in 1..Len(patterns) : patterns[k].countPerDay >= 1

-----------------------------------------------------------------------------
(* The plan map: the range picker, generateCalendar, applyAllPatterns, the *)
(* day cells, removePattern and the reset, started with a pattern store    *)
(* the editor can have produced.  Day 5 is Monday 2025-01-06 and day 12    *)
(* the Monday after it.                                                    *)

\* What the editor has committed: a pattern of one a day on every weekday, a
\* pattern of three a day from 10, a pattern of two a day on Mondays only,
\* and a pattern saved with the count field left empty.
SamplePatterns ==
    { [subjectName |-> "minbeop", unit |-> "gang", startNum |-> 1,
       countPerDay |-> 1, days |-> {}],
      [subjectName |-> "teukheobeop", unit |-> "hoe", startNum |-> 10,
       countPerDay |-> 3, days |-> {}],
      [subjectName |-> "minbeop", unit |-> "hoe", startNum |-> 1,
       countPerDay |-> 2, days |-> {1}],
      [subjectName |-> "teukheobeop", unit |-> "gang", startNum |-> 0,
       countPerDay |-> 0, days |-> {0, 1, 6}] }

WithId(content, id) ==
    [id |-> id, subjectName |-> content.subjectName, unit |-> content.unit,
     startNum |-> content.startNum, countPerDay |-> content.countPerDay,
     days |-> content.days]

\* The stores of n different sample patterns, saved one after the other.
StoresOfSize(n) ==
    { [k \in 1..n |-> WithId(c[k], k)] :
        c \in {f \in [1..n -> SamplePatterns] :
                 \A a, b \in 1..n : a # b => f[a] # f[b]} }

SampleStores == UNION {StoresOfSize(n) : n \in 0..MaxPatterns}

InitPlanner ==
    /\ tz \in {z \in Zones : z.name \in {"Asia/Seoul", "America/New_York"}}
    /\ patterns \in SampleStores
    /\ clock = Len(patterns)
    /\ startDate = NoDate
    /\ endDate = NoDate
    /\ calendar = <<>>
    /\ plans = <<>>
    /\ showPatternModal = FALSE
    /\ editingPattern = InitialEditingPattern
    /\ plannerName = DefaultPlannerName
    /\ dateFormat = "day"
    /\ exports = <<>>
    /\ attached = {}
    /\ saved = {}
    /\ exportCount = 0
    /\ lastOp = <<"addOrUpdatePattern", "ok">>

PlannerPickDays == {5, 12}
PlannerCells == {1, 2}
CellTexts == {<<"memo", "\n", "<", "b", ">">>}

NextPlanner ==
    \/ \E day \in PlannerPickDays : \E range \in Ranges(day, PlannerPickDays) :
          DayPickerClick(day, range)
    \/ GenerateCalendar
    \/ applyAllPatterns
    \/ \E j \in PlannerCells, v \in CellTexts : CellChange(j, v)
    \/ \E i \in 1..MaxPatterns : removePattern(i)
    \/ \E confirmed \in BOOLEAN : ClearPlans(confirmed)

SpecPlanner == InitPlanner /\ [][NextPlanner]_vars

-----------------------------------------------------------------------------
(* Claims about applyAllPatterns, under SpecPlanner *)

Applied == lastOp = <<"applyAllPatterns", "ok">>

\* Pattern i fires on calendar day j: its weekday list is empty or holds the
\* weekday of the day.
Fires(i, j) ==
    \/ patterns[i].days = {}
    \/ GetDay(tz, calendar[j]) \in patterns[i].days

\* The number of days among the first j on which pattern i fires.
Firings(i, j) == Cardinality({d \in 1..j : Fires(i, d)})

\* The number of patterns among the first i that fire on day j.
FiringPatterns(i, j) == Cardinality({a \in 1..i : Fires(a, j)})

\* The number pattern i stands at on its firing day j.
NumberOn(i, j) ==
    patterns[i].startNum + (Firings(i, j) - 1) * patterns[i].countPerDay

\* The lines of a text.
RECURSIVE SplitLines(_)
SplitLines(t) ==
    IF \E k \in 1..Len(t) : t[k] = "\n"
      THEN LET k == CHOOSE k \in 1..Len(t) :
                      t[k] = "\n" /\ \A m \in 1..(k - 1) : t[m] # "\n"
           IN  <<SubSeq(t, 1, k - 1)>> \o SplitLines(SubSeq(t, k + 1, Len(t)))
      ELSE <<t>>

\* The line pattern i contributed to the text of day j.
LineOf(i, j) == SplitLines(plans[dateKey(tz, calendar[j])])[FiringPatterns(i, j)]

\* C1: after applyAllPatterns, the line a pattern contributes on its k-th
\* firing day starts at startNum + (k-1) * countPerDay: days on which it does
\* not fire do not advance its number, and no day resets it.
C1_NumberingIsContinuousPerPattern ==
    Applied =>
      \A i \in 1..Len(patterns), j \in 1..Len(calendar) :
        Fires(i, j) =>
          /\ dateKey(tz, calendar[j]) \in DOMAIN plans
          /\ FiringPatterns(i, j) <= Len(SplitLines(plans[dateKey(tz, calendar[j])]))
          /\ LineOf(i, j)[1] = patterns[i].subjectName
          /\ ParseInt(SubSeq(LineOf(i, j), 3, Len(LineOf(i, j)))) = NumberOn(i, j)

\* A pattern of two a day that is limited to some weekdays has fired twice,
\* with days in between on which it did not fire, beside another pattern.
C1_Witness ==
    /\ Applied
    /\ Len(patterns) = 2
    /\ \E i \in 1..Len(patterns) :
         /\ patterns[i].countPerDay = 2
         /\ Firings(i, Len(calendar)) = 2
         /\ \E j \in 1..Len(calendar) : ~Fires(i, j)

\* 'subject c unit' for one a day, 'subject c-(c+countPerDay-1) unit' otherwise.
ExpectedLine(p, c) ==
    <<p.subjectName, " ">> \o NumStr(c)
      \o (IF p.countPerDay = 1 THEN <<>> ELSE <<"-">> \o NumStr(c + p.countPerDay - 1))
      \o <<p.unit>>

\* The indices of the patterns that fire on day j, in store order.
FiringOrder(j) ==
    SelectSeq([i \in 1..Len(patterns) |-> i], LAMBDA i : Fires(i, j))

ExpectedText(j) ==
    Join([m \in 1..Len(FiringOrder(j)) |->
            ExpectedLine(patterns[FiringOrder(j)[m]], NumberOn(FiringOrder(j)[m], j))])

\* C2: after applyAllPatterns, the text of each day on which a pattern fires
\* is the newline-joined list of the lines of exactly the firing patterns, in
\* store order, each line in the format of its countPerDay.
C2_DayTextIsFiringLinesInStoreOrder ==
    Applied =>
      \A j \in 1..Len(calendar) :
        dateKey(tz, calendar[j]) \in DOMAIN plans
          => plans[dateKey(tz, calendar[j])] = ExpectedText(j)

\* A day holds the lines of two patterns, the second being the range 10-12.
C2_Witness ==
    /\ Applied
    /\ Len(patterns) = 2
    /\ patterns[1].countPerDay = 1
    /\ \E j \in 1..Len(calendar) :
         /\ dateKey(tz, calendar[j]) \in DOMAIN plans
         /\ Len(SplitLines(plans[dateKey(tz, calendar[j])])) = 2
         /\ SplitLines(plans[dateKey(tz, calendar[j])])[2]
              = <<"teukheobeop", " ", "1", "0", "-", "1", "2", "hoe">>

\* C3: after applyAllPatterns, the plan map has a key exactly for the
\* calendar days on which at least one pattern fires, nothing of the earlier
\* map is left, and no key holds the empty text.
C3_PlanKeysAreExactlyTheFiringDays ==
    Applied =>
      /\ DOMAIN plans =
           { dateKey(tz, calendar[j]) :
               j \in {d \in 1..Len(calendar) : \E i \in 1..Len(patterns) : Fires(i, d)} }
      /\ \A k \in DOMAIN plans : plans[k] # <<>>

\* The calendar has days with a firing and days without one.
C3_Witness ==
    /\ Applied
    /\ plans # <<>>
    /\ \E j \in 1..Len(calendar) : \A i \in 1..Len(patterns) : ~Fires(i, j)
    /\ \E j \in 1..Len(calendar) : dateKey(tz, calendar[j]) \in DOMAIN plans

-----------------------------------------------------------------------------
(* The grid and the export: every weekday as first day and every length    *)
(* from one day to a week and a day, as generateCalendar leaves them, with  *)
(* the two settings the export reads.                                       *)

GridStartDays == 0..6
GridLengths == 1..8
PlannerNames == {"exam"}
DateFormats == {"day", "month-day"}

InitGrid ==
    /\ tz \in Zones
    /\ \E a \in GridStartDays, n \in GridLengths :
         /\ startDate = a
         /\ endDate = a + n - 1
         /\ calendar = DatesLoop(tz, [d |-> MidnightOfKey(tz, a), dates |-> <<>>],
                                 MidnightOfKey(tz, a + n - 1))
    /\ lastOp = <<"generateCalendar", "ok">>
    /\ plans = <<>>
    /\ patterns = <<>>
    /\ showPatternModal = FALSE
    /\ editingPattern = InitialEditingPattern
    /\ clock = 0
    /\ plannerName = DefaultPlannerName
    /\ dateFormat = "day"
    /\ exports = <<>>
    /\ attached = {}
    /\ saved = {}
    /\ exportCount = 0

NextGrid ==
    \/ exportToPDF
    \/ \E id \in 1..MaxExports, assembled \in BOOLEAN : ExportResumes(id, assembled)
    \/ \E id \in 1..MaxExports : ExportRejects(id)
    \/ \E v \in PlannerNames : PlannerNameChange(v)
    \/ \E v \in DateFormats : DateFormatChange(v)

SpecGrid == InitGrid /\ [][NextGrid]_vars

-----------------------------------------------------------------------------
(* Claims about the grid, under SpecGrid *)

\* The weekday of the day a key spells, 0 = Sunday: 2025-01-01 is a Wednesday.
WeekdayOfKey(key) == (key + 3) % 7

BlanksComplete(leading, n, trailing) ==
    /\ leading \in 0..6
    /\ trailing \in 0..6
    /\ trailing = (7 - ((leading + n) % 7)) % 7
    /\ (leading + n + trailing) % 7 = 0

\* C7: for a calendar that is not empty, the leading blanks are the weekday
\* of the first day, the trailing blanks are (7 - (leading + dayCount) mod 7)
\* mod 7, both lie in 0..6, blanks and days together fill whole weeks, and an
\* export computes for the calendar it renders the two values the grid shows.
C7_BlanksFillWholeWeeks ==
    Len(calendar) > 0 =>
      /\ gridDates.leading = WeekdayOfKey(dateKey(tz, calendar[1]))
      /\ BlanksComplete(gridDates.leading, Len(calendar), gridDates.trailing)
      /\ \A id \in DOMAIN exports :
           /\ exports[id].leading = WeekdayOfKey(exports[id].cells[1].key)
           /\ BlanksComplete(exports[id].leading, Len(exports[id].cells),
                             exports[id].trailing)
           /\ exports[id].leading = gridDates.leading
           /\ exports[id].trailing = gridDates.trailing

\* An export is suspended on a calendar that starts on a Saturday and ends
\* on a Saturday: six blanks before it and none after it.
C7_Witness ==
    /\ exports # <<>>
    /\ Len(calendar) = 8
    /\ gridDates = [leading |-> 6, trailing |-> 0]

-----------------------------------------------------------------------------
(* A session on the main page: every handler outside the pattern modal,    *)
(* started with a store of at most one pattern of one a day, on a machine  *)
(* west of Greenwich.  Day 500 is more than 400 days after day 5.          *)

SessionPickDays == {5, 500}
SessionCells == {1}

InitSession ==
    /\ InitPlanner
    /\ tz.name = "America/New_York"
    /\ Len(patterns) <= 1
    /\ \A k \in 1..Len(patterns) : patterns[k].countPerDay = 1

NextSession ==
    \/ \E day \in SessionPickDays : \E range \in Ranges(day, SessionPickDays) :
          DayPickerClick(day, range)
    \/ ClearRange
    \/ GenerateCalendar
    \/ applyAllPatterns
    \/ \E j \in SessionCells, v \in CellTexts : CellChange(j, v)
    \/ \E i \in 1..MaxPatterns : removePattern(i)
    \/ \E confirmed \in BOOLEAN : ClearPlans(confirmed)
    \/ exportToPDF
    \/ \E id \in 1..MaxExports, assembled \in BOOLEAN : ExportResumes(id, assembled)
    \/ \E id \in 1..MaxExports : ExportRejects(id)

SpecSession == InitSession /\ [][NextSession]_vars

-----------------------------------------------------------------------------
(* Claims about the validation failures, under SpecSession *)

\* Everything the component and the document hold.
appState ==
    <<startDate, endDate, calendar, plans, patterns, showPatternModal,
      editingPattern, plannerName, dateFormat, exports, attached, saved,
      exportCount>>

ValidationFailed(op) ==
    /\ op[1] \in {"generateCalendar", "applyAllPatterns", "exportToPDF"}
    /\ op[2] \in {"alert: select the dates", "alert: end before start",
                  "alert: span too long", "alert: generate the calendar first"}

\* C10: a handler that ends in a validation alert (generateCalendar on a
\* missing date, an end before the start or a span that is too long;
\* applyAllPatterns and exportToPDF on an empty calendar) leaves the whole
\* state as it was: calendar, plans and patterns, and no container is
\* attached, no rasterization started and no file saved.
C10_ValidationFailureChangesNothing ==
    [][ ValidationFailed(lastOp') => UNCHANGED appState ]_vars

\* generateCalendar has rejected a range while a calendar, plans and a
\* pattern were there and an export was suspended.
C10_Witness ==
    /\ lastOp[1] = "generateCalendar"
    /\ lastOp[2] \in {"alert: end before start", "alert: span too long"}
    /\ Len(calendar) > 0
    /\ plans # <<>>
    /\ Len(patterns) > 0
    /\ exports # <<>>

-----------------------------------------------------------------------------
(* Claims about the offscreen container of an export, under SpecGrid *)

\* C11: a container that exportToPDF attached is attached only while its
\* export is still waiting for html2canvas; once the export has ended, on
\* success or on any failure, its container is no longer in the document.
C11_ContainerRemovedWhenExportEnds ==
    attached \subseteq DOMAIN exports

-----------------------------------------------------------------------------
(* The reset: the main page with the settings fields and without the       *)
(* export, started as the session is.                                      *)

NextReset ==
    \/ \E day \in SessionPickDays : \E range \in Ranges(day, SessionPickDays) :
          DayPickerClick(day, range)
    \/ GenerateCalendar
    \/ applyAllPatterns
    \/ \E j \in SessionCells, v \in CellTexts : CellChange(j, v)
    \/ \E v \in PlannerNames : PlannerNameChange(v)
    \/ \E v \in DateFormats : DateFormatChange(v)
    \/ \E confirmed \in BOOLEAN : ClearPlans(confirmed)

SpecReset == InitSession /\ [][NextReset]_vars

-----------------------------------------------------------------------------
(* Claims about the reset, under SpecReset *)

\* What the reset is about.
resetState ==
    <<startDate, endDate, calendar, plans, patterns, plannerName, dateFormat>>

WasReset ==
    /\ startDate = NoDate
    /\ endDate = NoDate
    /\ calendar = <<>>
    /\ plans = <<>>
    /\ patterns = <<>>
    /\ plannerName = DefaultPlannerName
    /\ dateFormat = "day"

\* C12: one step of a confirmed clearPlans ends with the dates, the calendar,
\* the plan map and the pattern store empty, the planner name at its default
\* and the date format at "day"; a declined clearPlans changes nothing.
C12_ResetClearsAllOrNothing ==
    [][ /\ lastOp' = <<"clearPlans", "confirmed">> => WasReset'
        /\ lastOp' = <<"clearPlans", "declined">> => UNCHANGED appState
      ]_vars

\* A confirmed reset has been run in a session that began with a stored
\* pattern.
C12_Witness ==
    /\ lastOp = <<"clearPlans", "confirmed">>
    /\ WasReset
    /\ clock > 0

-----------------------------------------------------------------------------
(* Plans of days outside the calendar: the session with the save of the    *)
(* editor in it, one export at a time and every export resolving, started  *)
(* with an empty store; each click on the picker selects the clicked day   *)
(* alone.                                                                  *)

InitOrphans == InitSession /\ patterns = <<>>

NextOrphans ==
    \/ \E day \in SessionPickDays :
          DayPickerClick(day, [from |-> day, to |-> day, none |-> FALSE])
    \/ GenerateCalendar
    \/ applyAllPatterns
    \/ \E j \in SessionCells, v \in CellTexts : CellChange(j, v)
    \/ \E i \in 1..MaxPatterns : removePattern(i)
    \/ OpenPatternModal
    \/ addOrUpdatePattern
    \/ \E confirmed \in BOOLEAN : ClearPlans(confirmed)
    \/ exports = <<>> /\ exportToPDF
    \/ \E id \in 1..MaxExports : ExportResumes(id, TRUE)

SpecOrphans == InitOrphans /\ [][NextOrphans]_vars

-----------------------------------------------------------------------------
(* Claims about the orphaned plans, under SpecOrphans *)

CalendarKeys == {dateKey(tz, calendar[j]) : j \in 1..Len(calendar)}

\* The keys of the plan map that are no day of the calendar.
Orphans == DOMAIN plans \ CalendarKeys

\* The keys of the plan map that are no day of the calendar before the step
\* or no day of the calendar after it.
OrphansOfStep == DOMAIN plans \ (CalendarKeys \cap CalendarKeys')

\* The entries of the keys ks are in the plan map after the step as before.
Kept(ks) == \A k \in ks : k \in DOMAIN plans' /\ plans'[k] = plans[k]

\* The keys of the cells of the on-screen grid (calendar.map) and of the
\* container of the export that the step starts.
ShownKeys == CalendarKeys

ExportedKeys(doc) == {doc.cells[j].key : j \in 1..Len(doc.cells)}

\* C13 as stated: an orphaned entry stays in the plan map through every
\* step but a confirmed reset.
C13_OrphansStayUntilReset ==
    [][ lastOp' # <<"clearPlans", "confirmed">> => Kept(Orphans) ]_vars

\* C13: an orphaned entry is in no cell of the grid and in no cell of an
\* export that starts; an entry that is orphaned before a step, or by it,
\* stays in the plan map through every step but a confirmed reset and an
\* applyAllPatterns on a generated calendar, which both replace the whole
\* map.
C13_OrphansStayUntilResetOrApply ==
    [][ /\ Orphans \cap ShownKeys = {}
        /\ lastOp' = <<"exportToPDF", "awaiting html2canvas">>
             => Orphans \cap ExportedKeys(exports'[exportCount']) = {}
        /\ ( /\ lastOp' # <<"clearPlans", "confirmed">>
             /\ lastOp' # <<"applyAllPatterns", "ok">> ) => Kept(OrphansOfStep)
      ]_vars

\* generateCalendar has moved the calendar away from a day that has a plan.
C13_Witness ==
    /\ lastOp = <<"generateCalendar", "ok">>
    /\ Orphans # {}
    /\ Len(calendar) > 0

-----------------------------------------------------------------------------
(* Claims about repeated runs of applyAllPatterns, under SpecPlanner *)

-----------------------------------------------------------------------------
(* Claims about the manual edit of a day cell, under SpecPlanner *)

\* The step writes text under key k and leaves the other entries alone.
EditsOnly(k) ==
    /\ DOMAIN plans' = DOMAIN plans \cup {k}
    /\ plans'[k] \in CellTexts
    /\ \A other \in DOMAIN plans \ {k} : plans'[other] = plans[other]

\* C15: a manual edit sets the plan of one day of the current calendar to the
\* typed text and leaves every other plan, the calendar, the patterns and
\* the date range as they were.
C15_ManualEditWritesOneEntry ==
    [][ lastOp' = <<"cell-text.onChange", "ok">> =>
          /\ \E k \in CalendarKeys : EditsOnly(k)
          /\ UNCHANGED <<calendar, patterns, startDate, endDate, editingPattern>>
      ]_vars

\* A day of a generated plan has been overwritten by hand, beside a day that
\* keeps the text of its patterns.
C15_Witness ==
    /\ lastOp = <<"cell-text.onChange", "ok">>
    /\ Len(patterns) > 0
    /\ \E k \in CalendarKeys : k \in DOMAIN plans /\ plans[k] \in CellTexts
    /\ \E k \in CalendarKeys : k \in DOMAIN plans /\ plans[k] \notin CellTexts

-----------------------------------------------------------------------------
(* Claims about the size of the calendar, under SpecCalendar *)

\* C16: the calendar never holds more than maxSpan days, whatever daylight
\* saving does to the length of the days of the selected range.
C16_CalendarHoldsAtMostMaxSpanDays ==
    Len(calendar) <= maxSpan

-----------------------------------------------------------------------------
(* Claims about exports in flight at the same time, under SpecGrid *)

InFlight == DOMAIN exports

\* C17 as stated: exports in flight at the same time have one container
\* between them.
C17_ExportsInFlightShareOneContainer ==
    Cardinality(InFlight) > 1 => Cardinality(attached \cap InFlight) = 1

\* C17: a second export can start while one waits for html2canvas, and each
\* has a container of its own: as long as an export is in flight its
\* container is attached and holds what that export put into it, whatever
\* the other exports do.
C17_ExportsInFlightKeepTheirOwnContainer ==
    [][ \A id \in InFlight :
          /\ id \in attached
          /\ id \in DOMAIN exports' => /\ id \in attached'
                                       /\ exports'[id] = exports[id]
      ]_vars

\* Two exports with different contents wait for html2canvas at the same time.
C17_Witness ==
    /\ Cardinality(InFlight) = 2
    /\ InFlight \subseteq attached
    /\ \E a, b \in InFlight : exports[a] # exports[b]

-----------------------------------------------------------------------------
(* Claims about the 'add pattern' button, under SpecEditorLabels *)

\* C18: a save that follows the 'add pattern' button adds one pattern to the
\* store: the stored patterns stay where and what they were, and the ids of
\* the store stay pairwise distinct.
C18_AddThenSaveAppendsOnePattern ==
    [][ ( /\ lastOp = <<"openPatternModal", "ok">>
          /\ lastOp' = <<"addOrUpdatePattern", "ok">> )
        => /\ Len(patterns') = Len(patterns) + 1
           /\ SubSeq(patterns', 1, Len(patterns)) = patterns
           /\ Cardinality(Ids(patterns')) = Len(patterns')
      ]_vars

-----------------------------------------------------------------------------
(* The whole component: every handler, with the inputs of all the slices    *)
(* above.  The slices are the parts of it that the claims are checked on.   *)

PickDays == CalendarPickDays \cup PlannerPickDays \cup SessionPickDays

Next ==
    \/ \E day \in PickDays : \E range \in Ranges(day, PickDays) :
          DayPickerClick(day, range)
    \/ ClearRange
    \/ GenerateCalendar
    \/ \E confirmed \in BOOLEAN : ClearPlans(confirmed)
    \/ applyAllPatterns
    \/ \E j \in PlannerCells, v \in CellTexts : CellChange(j, v)
    \/ \E v \in PlannerNames : PlannerNameChange(v)
    \/ \E v \in DateFormats : DateFormatChange(v)
    \/ NextEditorNumbers
    \/ NextEditorLabels
    \/ exportToPDF
    \/ \E id \in 1..MaxExports, assembled \in BOOLEAN : ExportResumes(id, assembled)
    \/ \E id \in 1..MaxExports : ExportRejects(id)

Spec == Init /\ [][Next]_vars

=============================================================================
